---- MODULE Spec2Model ----
(***************************************************************************)
(* A model of the toypayments engine: the per-client Account state machine *)
(* (src/src/account.rs) and the Engine that routes each TransactionRecord  *)
(* to a deposit, withdrawal, dispute, resolve or chargeback transition     *)
(* (src/src/engine.rs), and the loop of main.rs that feeds the engine a    *)
(* stream and writes the accounts out.  Amounts are counted in units of    *)
(* 0.0001.                                                                 *)
(***************************************************************************)
EXTENDS Integers, Sequences, FiniteSets, TLC

\* ---------------------------------------------------------------- bounds
\* Client ids are 1..MaxClient; amounts run up to MaxAmount units.
MaxClient == 2
MaxAmount == 1

\* TransactionRecord.client (u16)
Clients == 1..MaxClient
\* TransactionRecord.tx (u32): the transaction ids a stream may use.
TxIds == {1, 2}
\* Decimal amounts a record may carry: one negative value and 0..MaxAmount.
Amounts == (-1)..MaxAmount

\* Decimal::MAX in units of 0.0001, scaled down: the largest value a Decimal
\* holds.  It lies above every sum the two tx ids of TxIds can build from
\* amounts up to MaxAmount; only amounts beyond MaxAmount reach it.
DecimalMax == 2 * MaxAmount + 1

\* Option<Decimal>: None is the empty tuple, Some(a) the one-element tuple.
None == <<>>
Some(a) == <<a>>
OptAmounts == {None} \cup {Some(a) : a \in Amounts}

\* ------------------------------------------------------ transaction.rs
Deposit == "deposit"
Withdrawal == "withdrawal"
Dispute == "dispute"
Resolve == "resolve"
Chargeback == "chargeback"
TransactionType == {Deposit, Withdrawal, Dispute, Resolve, Chargeback}

TransactionRecord(ty, c, t, a) ==
  [tx_type |-> ty, client |-> c, tx |-> t, amount |-> a]

StoredTransaction_new(ty, c, a) ==
  [tx_type |-> ty, client |-> c, amount |-> a, disputed |-> FALSE]

\* ---------------------------------------------------------- account.rs
Account_new(c) ==
  [client |-> c, available |-> 0, held |-> 0, locked |-> FALSE]

total(acct) == acct.available + acct.held

\* Result<(), AccountError> together with the account the call leaves behind.
AccOk(acct) == [err |-> "Ok", acct |-> acct]
AccErr(e, acct) == [err |-> e, acct |-> acct]

\* Decimal's + and += panic when the sum exceeds Decimal::MAX; the
\* operands here are never negative.
Overflows(a, b) == a + b > DecimalMax

\* The call did not return: the addition panicked and the process is gone.
AccPanic(acct) == AccErr("Panic", acct)

\* deposit without the check of the amount's sign.
deposit_any_sign(acct, amount) ==
  IF acct.locked THEN AccErr("AccountLocked", acct)
  ELSE IF Overflows(acct.available, amount) THEN AccPanic(acct)
  ELSE AccOk([acct EXCEPT !.available = @ + amount])

\* deposit on a representation that cannot hold every multiple of 0.0001:
\* the sum is cut to the nearest even number of units below it.
deposit_truncates(acct, amount) ==
  IF acct.locked THEN AccErr("AccountLocked", acct)
  ELSE IF amount < 0 THEN AccErr("NegativeAmount", acct)
  ELSE IF Overflows(acct.available, amount) THEN AccPanic(acct)
  ELSE AccOk([acct EXCEPT !.available = 2 * ((@ + amount) \div 2)])

deposit(acct, amount) ==
  IF acct.locked THEN AccErr("AccountLocked", acct)
  ELSE IF amount < 0 THEN AccErr("NegativeAmount", acct)
  ELSE IF Overflows(acct.available, amount) THEN AccPanic(acct)
  ELSE AccOk([acct EXCEPT !.available = @ + amount])

\* withdraw without the check of available against the amount.
withdraw_unchecked(acct, amount) ==
  IF acct.locked THEN AccErr("AccountLocked", acct)
  ELSE IF amount < 0 THEN AccErr("NegativeAmount", acct)
  ELSE AccOk([acct EXCEPT !.available = @ - amount])

\* withdraw with the sign check placed before the locked check.
withdraw_sign_first(acct, amount) ==
  IF amount < 0 THEN AccErr("NegativeAmount", acct)
  ELSE IF acct.locked THEN AccErr("AccountLocked", acct)
  ELSE IF acct.available < amount THEN AccErr("InsufficientFunds", acct)
  ELSE AccOk([acct EXCEPT !.available = @ - amount])

\* withdraw that measures the amount against the total, held funds included.
withdraw_checks_total(acct, amount) ==
  IF acct.locked THEN AccErr("AccountLocked", acct)
  ELSE IF amount < 0 THEN AccErr("NegativeAmount", acct)
  ELSE IF total(acct) < amount THEN AccErr("InsufficientFunds", acct)
  ELSE AccOk([acct EXCEPT !.available = @ - amount])

withdraw(acct, amount) ==
  IF acct.locked THEN AccErr("AccountLocked", acct)
  ELSE IF amount < 0 THEN AccErr("NegativeAmount", acct)
  ELSE IF acct.available < amount THEN AccErr("InsufficientFunds", acct)
  ELSE AccOk([acct EXCEPT !.available = @ - amount])

\* hold that adds the amount to held and leaves available as it was.
hold_keeps_available(acct, amount) ==
  IF amount < 0 THEN AccErr("NegativeAmount", acct)
  ELSE IF acct.available < amount THEN AccErr("InsufficientFunds", acct)
  ELSE IF Overflows(acct.held, amount) THEN AccPanic(acct)
  ELSE AccOk([acct EXCEPT !.held = @ + amount])

\* hold without the check of available against the amount.
hold_unchecked(acct, amount) ==
  IF amount < 0 THEN AccErr("NegativeAmount", acct)
  ELSE IF Overflows(acct.held, amount) THEN AccPanic(acct)
  ELSE AccOk([acct EXCEPT !.available = @ - amount, !.held = @ + amount])

\* hold that refuses a locked account, as deposit and withdraw do.
hold_blocked_by_lock(acct, amount) ==
  IF acct.locked THEN AccErr("AccountLocked", acct)
  ELSE IF amount < 0 THEN AccErr("NegativeAmount", acct)
  ELSE IF acct.available < amount THEN AccErr("InsufficientFunds", acct)
  ELSE IF Overflows(acct.held, amount) THEN AccPanic(acct)
  ELSE AccOk([acct EXCEPT !.available = @ - amount, !.held = @ + amount])

hold(acct, amount) ==
  IF amount < 0 THEN AccErr("NegativeAmount", acct)
  ELSE IF acct.available < amount THEN AccErr("InsufficientFunds", acct)
  ELSE IF Overflows(acct.held, amount) THEN AccPanic(acct)
  ELSE AccOk([acct EXCEPT !.available = @ - amount, !.held = @ + amount])

\* release that takes the amount out of held and forgets to give it back.
release_forgets_available(acct, amount) ==
  IF amount < 0 THEN AccErr("NegativeAmount", acct)
  ELSE IF acct.held < amount THEN AccErr("InsufficientHeldFunds", acct)
  ELSE AccOk([acct EXCEPT !.held = @ - amount])

release(acct, amount) ==
  IF amount < 0 THEN AccErr("NegativeAmount", acct)
  ELSE IF acct.held < amount THEN AccErr("InsufficientHeldFunds", acct)
  ELSE IF Overflows(acct.available, amount) THEN AccPanic(acct)
  ELSE AccOk([acct EXCEPT !.held = @ - amount, !.available = @ + amount])

\* chargeback that locks the account before it checks the amount.
chargeback_locks_first(acct, amount) ==
  LET frozen == [acct EXCEPT !.locked = TRUE] IN
    IF amount < 0 THEN AccErr("NegativeAmount", frozen)
    ELSE IF acct.held < amount THEN AccErr("InsufficientHeldFunds", frozen)
    ELSE AccOk([frozen EXCEPT !.held = @ - amount])

\* chargeback that locks the account and leaves the held funds in place.
chargeback_keeps_held(acct, amount) ==
  IF amount < 0 THEN AccErr("NegativeAmount", acct)
  ELSE IF acct.held < amount THEN AccErr("InsufficientHeldFunds", acct)
  ELSE AccOk([acct EXCEPT !.locked = TRUE])

\* chargeback that locks the account and hands the held funds back to it.
chargeback_returns_funds(acct, amount) ==
  IF amount < 0 THEN AccErr("NegativeAmount", acct)
  ELSE IF acct.held < amount THEN AccErr("InsufficientHeldFunds", acct)
  ELSE AccOk([acct EXCEPT !.held = @ - amount, !.available = @ + amount,
                          !.locked = TRUE])

\* chargeback that removes the held funds and never locks the account.
chargeback_never_locks(acct, amount) ==
  IF amount < 0 THEN AccErr("NegativeAmount", acct)
  ELSE IF acct.held < amount THEN AccErr("InsufficientHeldFunds", acct)
  ELSE AccOk([acct EXCEPT !.held = @ - amount])

\* chargeback that flips the locked flag instead of setting it.
chargeback_toggles_lock(acct, amount) ==
  IF amount < 0 THEN AccErr("NegativeAmount", acct)
  ELSE IF acct.held < amount THEN AccErr("InsufficientHeldFunds", acct)
  ELSE AccOk([acct EXCEPT !.held = @ - amount, !.locked = ~@])

chargeback(acct, amount) ==
  IF amount < 0 THEN AccErr("NegativeAmount", acct)
  ELSE IF acct.held < amount THEN AccErr("InsufficientHeldFunds", acct)
  ELSE AccOk([acct EXCEPT !.held = @ - amount, !.locked = TRUE])

\* ----------------------------------------------------------- engine.rs
\* The outcome of one Engine call: the two maps it leaves and its Result.
Outcome(accs, txs, result) ==
  [accounts |-> accs, transactions |-> txs, result |-> result]

\* self.accounts.entry(client).or_insert_with(|| Account::new(client))
entry_or_insert(accs, c) ==
  IF c \in DOMAIN accs THEN accs ELSE accs @@ (c :> Account_new(c))

\* HashMap::insert
insert(m, k, v) ==
  IF k \in DOMAIN m THEN [m EXCEPT ![k] = v] ELSE m @@ (k :> v)

\* proc_deposit that credits the account before it looks for the tx id among
\* the stored ones.
proc_deposit_credit_first(accs, txs, record) ==
  IF record.amount = None THEN Outcome(accs, txs, "MissingAmount")
  ELSE LET amount == record.amount[1]
           accs1 == entry_or_insert(accs, record.client)
           r == deposit(accs1[record.client], amount)
       IN IF r.err # "Ok" THEN Outcome(accs1, txs, r.err)
          ELSE IF record.tx \in DOMAIN txs
            THEN Outcome([accs1 EXCEPT ![record.client] = r.acct], txs,
                         "DuplicateTransaction")
          ELSE Outcome([accs1 EXCEPT ![record.client] = r.acct],
                       insert(txs, record.tx,
                              StoredTransaction_new(Deposit, record.client, amount)),
                       "Ok")

\* proc_deposit without the duplicate id check: the insert overwrites the
\* transaction stored under the id.
proc_deposit_no_dup_check(accs, txs, record) ==
  IF record.amount = None THEN Outcome(accs, txs, "MissingAmount")
  ELSE LET amount == record.amount[1]
           accs1 == entry_or_insert(accs, record.client)
           r == deposit(accs1[record.client], amount)
       IN IF r.err # "Ok" THEN Outcome(accs1, txs, r.err)
          ELSE Outcome([accs1 EXCEPT ![record.client] = r.acct],
                       insert(txs, record.tx,
                              StoredTransaction_new(Deposit, record.client, amount)),
                       "Ok")

\* proc_deposit that looks for a duplicate id before it unwraps the amount.
proc_deposit_dup_first(accs, txs, record) ==
  IF record.tx \in DOMAIN txs THEN Outcome(accs, txs, "DuplicateTransaction")
  ELSE IF record.amount = None THEN Outcome(accs, txs, "MissingAmount")
  ELSE LET amount == record.amount[1]
           accs1 == entry_or_insert(accs, record.client)
           r == deposit(accs1[record.client], amount)
       IN IF r.err # "Ok" THEN Outcome(accs1, txs, r.err)
          ELSE Outcome([accs1 EXCEPT ![record.client] = r.acct],
                       insert(txs, record.tx,
                              StoredTransaction_new(Deposit, record.client, amount)),
                       "Ok")

\* proc_deposit that creates the account before it looks for a duplicate id.
proc_deposit_entry_first(accs, txs, record) ==
  IF record.amount = None THEN Outcome(accs, txs, "MissingAmount")
  ELSE LET amount == record.amount[1]
           accs1 == entry_or_insert(accs, record.client)
       IN
    IF record.tx \in DOMAIN txs THEN Outcome(accs1, txs, "DuplicateTransaction")
    ELSE LET r == deposit(accs1[record.client], amount)
         IN IF r.err # "Ok" THEN Outcome(accs1, txs, r.err)
            ELSE Outcome([accs1 EXCEPT ![record.client] = r.acct],
                         insert(txs, record.tx,
                                StoredTransaction_new(Deposit, record.client, amount)),
                         "Ok")

\* proc_deposit that saves the transaction before it calls Account::deposit.
proc_deposit_store_first(accs, txs, record) ==
  IF record.amount = None THEN Outcome(accs, txs, "MissingAmount")
  ELSE LET amount == record.amount[1] IN
    IF record.tx \in DOMAIN txs THEN Outcome(accs, txs, "DuplicateTransaction")
    ELSE LET accs1 == entry_or_insert(accs, record.client)
             txs1 == insert(txs, record.tx,
                            StoredTransaction_new(Deposit, record.client, amount))
             r == deposit(accs1[record.client], amount)
         IN IF r.err # "Ok" THEN Outcome(accs1, txs1, r.err)
            ELSE Outcome([accs1 EXCEPT ![record.client] = r.acct], txs1, "Ok")

\* proc_deposit that drops the account it created when Account::deposit fails.
proc_deposit_rollback(accs, txs, record) ==
  IF record.amount = None THEN Outcome(accs, txs, "MissingAmount")
  ELSE LET amount == record.amount[1] IN
    IF record.tx \in DOMAIN txs THEN Outcome(accs, txs, "DuplicateTransaction")
    ELSE LET accs1 == entry_or_insert(accs, record.client)
             r == deposit(accs1[record.client], amount)
         IN IF r.err # "Ok" THEN Outcome(accs, txs, r.err)
            ELSE Outcome([accs1 EXCEPT ![record.client] = r.acct],
                         insert(txs, record.tx,
                                StoredTransaction_new(Deposit, record.client, amount)),
                         "Ok")

proc_deposit(accs, txs, record) ==
  IF record.amount = None THEN Outcome(accs, txs, "MissingAmount")
  ELSE LET amount == record.amount[1] IN
    IF record.tx \in DOMAIN txs THEN Outcome(accs, txs, "DuplicateTransaction")
    ELSE LET accs1 == entry_or_insert(accs, record.client)
             r == deposit(accs1[record.client], amount)
         IN IF r.err # "Ok" THEN Outcome(accs1, txs, r.err)
            ELSE Outcome([accs1 EXCEPT ![record.client] = r.acct],
                         insert(txs, record.tx,
                                StoredTransaction_new(Deposit, record.client, amount)),
                         "Ok")

\* proc_withdrawal that stores the transaction before it calls withdraw and
\* leaves it stored when withdraw fails.
proc_withdrawal_store_first(accs, txs, record) ==
  IF record.amount = None THEN Outcome(accs, txs, "MissingAmount")
  ELSE LET amount == record.amount[1] IN
    IF record.tx \in DOMAIN txs THEN Outcome(accs, txs, "DuplicateTransaction")
    ELSE LET accs1 == entry_or_insert(accs, record.client)
             txs1 == insert(txs, record.tx,
                            StoredTransaction_new(Withdrawal, record.client, amount))
             r == withdraw(accs1[record.client], amount)
         IN IF r.err # "Ok" THEN Outcome(accs1, txs1, r.err)
            ELSE Outcome([accs1 EXCEPT ![record.client] = r.acct], txs1, "Ok")

\* proc_withdrawal without the duplicate id check.
proc_withdrawal_no_dup_check(accs, txs, record) ==
  IF record.amount = None THEN Outcome(accs, txs, "MissingAmount")
  ELSE LET amount == record.amount[1]
           accs1 == entry_or_insert(accs, record.client)
           r == withdraw(accs1[record.client], amount)
       IN IF r.err # "Ok" THEN Outcome(accs1, txs, r.err)
          ELSE Outcome([accs1 EXCEPT ![record.client] = r.acct],
                       insert(txs, record.tx,
                              StoredTransaction_new(Withdrawal, record.client, amount)),
                       "Ok")

\* proc_withdrawal that looks the account up and never creates it.
proc_withdrawal_get_only(accs, txs, record) ==
  IF record.amount = None THEN Outcome(accs, txs, "MissingAmount")
  ELSE LET amount == record.amount[1] IN
    IF record.tx \in DOMAIN txs THEN Outcome(accs, txs, "DuplicateTransaction")
    ELSE IF record.client \notin DOMAIN accs
      THEN Outcome(accs, txs, "ClientNotFound")
    ELSE LET r == withdraw(accs[record.client], amount)
         IN IF r.err # "Ok" THEN Outcome(accs, txs, r.err)
            ELSE Outcome([accs EXCEPT ![record.client] = r.acct],
                         insert(txs, record.tx,
                                StoredTransaction_new(Withdrawal, record.client, amount)),
                         "Ok")

proc_withdrawal(accs, txs, record) ==
  IF record.amount = None THEN Outcome(accs, txs, "MissingAmount")
  ELSE LET amount == record.amount[1] IN
    IF record.tx \in DOMAIN txs THEN Outcome(accs, txs, "DuplicateTransaction")
    ELSE LET accs1 == entry_or_insert(accs, record.client)
             r == withdraw(accs1[record.client], amount)
         IN IF r.err # "Ok" THEN Outcome(accs1, txs, r.err)
            ELSE Outcome([accs1 EXCEPT ![record.client] = r.acct],
                         insert(txs, record.tx,
                                StoredTransaction_new(Withdrawal, record.client, amount)),
                         "Ok")

\* proc_dispute that looks at the disputed flag before it compares clients.
proc_dispute_disputed_first(accs, txs, record) ==
  IF record.tx \notin DOMAIN txs THEN Outcome(accs, txs, "TransactionNotFound")
  ELSE LET stored_tx == txs[record.tx] IN
    IF stored_tx.disputed THEN Outcome(accs, txs, "AlreadyDisputed")
    ELSE IF stored_tx.client # record.client
      THEN Outcome(accs, txs, "ClientMismatch")
    ELSE IF stored_tx.tx_type # Deposit
      THEN Outcome(accs, txs, "CannotDisputeWithdrawal")
    ELSE IF record.client \notin DOMAIN accs
      THEN Outcome(accs, txs, "ClientNotFound")
    ELSE LET r == hold(accs[record.client], stored_tx.amount) IN
      IF r.err # "Ok" THEN Outcome(accs, txs, r.err)
      ELSE Outcome([accs EXCEPT ![record.client] = r.acct],
                   [txs EXCEPT ![record.tx].disputed = TRUE], "Ok")

\* proc_dispute that treats a charged-back account as closed: it refuses
\* the dispute when the client's account is locked.
proc_dispute_refuses_locked(accs, txs, record) ==
  IF record.tx \notin DOMAIN txs THEN Outcome(accs, txs, "TransactionNotFound")
  ELSE LET stored_tx == txs[record.tx] IN
    IF stored_tx.client # record.client THEN Outcome(accs, txs, "ClientMismatch")
    ELSE IF stored_tx.disputed THEN Outcome(accs, txs, "AlreadyDisputed")
    ELSE IF stored_tx.tx_type # Deposit
      THEN Outcome(accs, txs, "CannotDisputeWithdrawal")
    ELSE IF record.client \notin DOMAIN accs
      THEN Outcome(accs, txs, "ClientNotFound")
    ELSE IF accs[record.client].locked
      THEN Outcome(accs, txs, "AccountLocked")
    ELSE LET r == hold(accs[record.client], stored_tx.amount) IN
      IF r.err # "Ok" THEN Outcome(accs, txs, r.err)
      ELSE Outcome([accs EXCEPT ![record.client] = r.acct],
                   [txs EXCEPT ![record.tx].disputed = TRUE], "Ok")

\* proc_dispute without the check of the stored transaction's kind.
proc_dispute_any_kind(accs, txs, record) ==
  IF record.tx \notin DOMAIN txs THEN Outcome(accs, txs, "TransactionNotFound")
  ELSE LET stored_tx == txs[record.tx] IN
    IF stored_tx.client # record.client THEN Outcome(accs, txs, "ClientMismatch")
    ELSE IF stored_tx.disputed THEN Outcome(accs, txs, "AlreadyDisputed")
    ELSE IF record.client \notin DOMAIN accs
      THEN Outcome(accs, txs, "ClientNotFound")
    ELSE LET r == hold(accs[record.client], stored_tx.amount) IN
      IF r.err # "Ok" THEN Outcome(accs, txs, r.err)
      ELSE Outcome([accs EXCEPT ![record.client] = r.acct],
                   [txs EXCEPT ![record.tx].disputed = TRUE], "Ok")

\* proc_dispute without the comparison of the record's client with the
\* stored transaction's: the hold lands on the record's client.
proc_dispute_no_client_check(accs, txs, record) ==
  IF record.tx \notin DOMAIN txs THEN Outcome(accs, txs, "TransactionNotFound")
  ELSE LET stored_tx == txs[record.tx] IN
    IF stored_tx.disputed THEN Outcome(accs, txs, "AlreadyDisputed")
    ELSE IF stored_tx.tx_type # Deposit
      THEN Outcome(accs, txs, "CannotDisputeWithdrawal")
    ELSE IF record.client \notin DOMAIN accs
      THEN Outcome(accs, txs, "ClientNotFound")
    ELSE LET r == hold(accs[record.client], stored_tx.amount) IN
      IF r.err # "Ok" THEN Outcome(accs, txs, r.err)
      ELSE Outcome([accs EXCEPT ![record.client] = r.acct],
                   [txs EXCEPT ![record.tx].disputed = TRUE], "Ok")

\* proc_dispute that gets or creates the client's account, as the deposit
\* and withdrawal handlers do, before it looks the transaction up.
proc_dispute_entry_first(accs, txs, record) ==
  LET accs1 == entry_or_insert(accs, record.client) IN
  IF record.tx \notin DOMAIN txs THEN Outcome(accs1, txs, "TransactionNotFound")
  ELSE LET stored_tx == txs[record.tx] IN
    IF stored_tx.client # record.client THEN Outcome(accs1, txs, "ClientMismatch")
    ELSE IF stored_tx.disputed THEN Outcome(accs1, txs, "AlreadyDisputed")
    ELSE IF stored_tx.tx_type # Deposit
      THEN Outcome(accs1, txs, "CannotDisputeWithdrawal")
    ELSE LET r == hold(accs1[record.client], stored_tx.amount) IN
      IF r.err # "Ok" THEN Outcome(accs1, txs, r.err)
      ELSE Outcome([accs1 EXCEPT ![record.client] = r.acct],
                   [txs EXCEPT ![record.tx].disputed = TRUE], "Ok")

\* proc_dispute that sets the disputed flag before it calls Account::hold.
proc_dispute_flag_first(accs, txs, record) ==
  IF record.tx \notin DOMAIN txs THEN Outcome(accs, txs, "TransactionNotFound")
  ELSE LET stored_tx == txs[record.tx] IN
    IF stored_tx.client # record.client THEN Outcome(accs, txs, "ClientMismatch")
    ELSE IF stored_tx.disputed THEN Outcome(accs, txs, "AlreadyDisputed")
    ELSE IF stored_tx.tx_type # Deposit
      THEN Outcome(accs, txs, "CannotDisputeWithdrawal")
    ELSE IF record.client \notin DOMAIN accs
      THEN Outcome(accs, txs, "ClientNotFound")
    ELSE LET txs1 == [txs EXCEPT ![record.tx].disputed = TRUE]
             r == hold(accs[record.client], stored_tx.amount) IN
      IF r.err # "Ok" THEN Outcome(accs, txs1, r.err)
      ELSE Outcome([accs EXCEPT ![record.client] = r.acct], txs1, "Ok")

\* proc_dispute that holds one unit whatever amount is stored.
proc_dispute_holds_unit(accs, txs, record) ==
  IF record.tx \notin DOMAIN txs THEN Outcome(accs, txs, "TransactionNotFound")
  ELSE LET stored_tx == txs[record.tx] IN
    IF stored_tx.client # record.client THEN Outcome(accs, txs, "ClientMismatch")
    ELSE IF stored_tx.disputed THEN Outcome(accs, txs, "AlreadyDisputed")
    ELSE IF stored_tx.tx_type # Deposit
      THEN Outcome(accs, txs, "CannotDisputeWithdrawal")
    ELSE IF record.client \notin DOMAIN accs
      THEN Outcome(accs, txs, "ClientNotFound")
    ELSE LET r == hold(accs[record.client], 1) IN
      IF r.err # "Ok" THEN Outcome(accs, txs, r.err)
      ELSE Outcome([accs EXCEPT ![record.client] = r.acct],
                   [txs EXCEPT ![record.tx].disputed = TRUE], "Ok")

\* proc_dispute without the check that the transaction is already disputed.
proc_dispute_no_disputed_check(accs, txs, record) ==
  IF record.tx \notin DOMAIN txs THEN Outcome(accs, txs, "TransactionNotFound")
  ELSE LET stored_tx == txs[record.tx] IN
    IF stored_tx.client # record.client THEN Outcome(accs, txs, "ClientMismatch")
    ELSE IF stored_tx.tx_type # Deposit
      THEN Outcome(accs, txs, "CannotDisputeWithdrawal")
    ELSE IF record.client \notin DOMAIN accs
      THEN Outcome(accs, txs, "ClientNotFound")
    ELSE LET r == hold(accs[record.client], stored_tx.amount) IN
      IF r.err # "Ok" THEN Outcome(accs, txs, r.err)
      ELSE Outcome([accs EXCEPT ![record.client] = r.acct],
                   [txs EXCEPT ![record.tx].disputed = TRUE], "Ok")

proc_dispute(accs, txs, record) ==
  IF record.tx \notin DOMAIN txs THEN Outcome(accs, txs, "TransactionNotFound")
  ELSE LET stored_tx == txs[record.tx] IN
    IF stored_tx.client # record.client THEN Outcome(accs, txs, "ClientMismatch")
    ELSE IF stored_tx.disputed THEN Outcome(accs, txs, "AlreadyDisputed")
    ELSE IF stored_tx.tx_type # Deposit
      THEN Outcome(accs, txs, "CannotDisputeWithdrawal")
    ELSE IF record.client \notin DOMAIN accs
      THEN Outcome(accs, txs, "ClientNotFound")
    ELSE LET r == hold(accs[record.client], stored_tx.amount) IN
      IF r.err # "Ok" THEN Outcome(accs, txs, r.err)
      ELSE Outcome([accs EXCEPT ![record.client] = r.acct],
                   [txs EXCEPT ![record.tx].disputed = TRUE], "Ok")

\* proc_resolve that takes the account of the transaction's owner, whoever
\* the record names.
proc_resolve_on_owner(accs, txs, record) ==
  IF record.tx \notin DOMAIN txs THEN Outcome(accs, txs, "TransactionNotFound")
  ELSE LET stored_tx == txs[record.tx] IN
    IF ~stored_tx.disputed THEN Outcome(accs, txs, "NotUnderDispute")
    ELSE IF stored_tx.client \notin DOMAIN accs
      THEN Outcome(accs, txs, "ClientNotFound")
    ELSE LET r == release(accs[stored_tx.client], stored_tx.amount) IN
      IF r.err # "Ok" THEN Outcome(accs, txs, r.err)
      ELSE Outcome([accs EXCEPT ![stored_tx.client] = r.acct],
                   [txs EXCEPT ![record.tx].disputed = FALSE], "Ok")

\* proc_resolve that looks at the disputed flag before it compares clients.
proc_resolve_state_first(accs, txs, record) ==
  IF record.tx \notin DOMAIN txs THEN Outcome(accs, txs, "TransactionNotFound")
  ELSE LET stored_tx == txs[record.tx] IN
    IF ~stored_tx.disputed THEN Outcome(accs, txs, "NotUnderDispute")
    ELSE IF stored_tx.client # record.client
      THEN Outcome(accs, txs, "ClientMismatch")
    ELSE IF record.client \notin DOMAIN accs
      THEN Outcome(accs, txs, "ClientNotFound")
    ELSE LET r == release(accs[record.client], stored_tx.amount) IN
      IF r.err # "Ok" THEN Outcome(accs, txs, r.err)
      ELSE Outcome([accs EXCEPT ![record.client] = r.acct],
                   [txs EXCEPT ![record.tx].disputed = FALSE], "Ok")

\* proc_resolve that releases the funds and leaves the disputed flag set.
proc_resolve_keeps_flag(accs, txs, record) ==
  IF record.tx \notin DOMAIN txs THEN Outcome(accs, txs, "TransactionNotFound")
  ELSE LET stored_tx == txs[record.tx] IN
    IF stored_tx.client # record.client THEN Outcome(accs, txs, "ClientMismatch")
    ELSE IF ~stored_tx.disputed THEN Outcome(accs, txs, "NotUnderDispute")
    ELSE IF record.client \notin DOMAIN accs
      THEN Outcome(accs, txs, "ClientNotFound")
    ELSE LET r == release(accs[record.client], stored_tx.amount) IN
      IF r.err # "Ok" THEN Outcome(accs, txs, r.err)
      ELSE Outcome([accs EXCEPT ![record.client] = r.acct], txs, "Ok")

proc_resolve(accs, txs, record) ==
  IF record.tx \notin DOMAIN txs THEN Outcome(accs, txs, "TransactionNotFound")
  ELSE LET stored_tx == txs[record.tx] IN
    IF stored_tx.client # record.client THEN Outcome(accs, txs, "ClientMismatch")
    ELSE IF ~stored_tx.disputed THEN Outcome(accs, txs, "NotUnderDispute")
    ELSE IF record.client \notin DOMAIN accs
      THEN Outcome(accs, txs, "ClientNotFound")
    ELSE LET r == release(accs[record.client], stored_tx.amount) IN
      IF r.err # "Ok" THEN Outcome(accs, txs, r.err)
      ELSE Outcome([accs EXCEPT ![record.client] = r.acct],
                   [txs EXCEPT ![record.tx].disputed = FALSE], "Ok")

\* proc_chargeback without the check that the transaction is under dispute.
proc_chargeback_no_dispute_check(accs, txs, record) ==
  IF record.tx \notin DOMAIN txs THEN Outcome(accs, txs, "TransactionNotFound")
  ELSE LET stored_tx == txs[record.tx] IN
    IF stored_tx.client # record.client THEN Outcome(accs, txs, "ClientMismatch")
    ELSE IF record.client \notin DOMAIN accs
      THEN Outcome(accs, txs, "ClientNotFound")
    ELSE LET r == chargeback(accs[record.client], stored_tx.amount) IN
      IF r.err # "Ok" THEN Outcome(accs, txs, r.err)
      ELSE Outcome([accs EXCEPT ![record.client] = r.acct],
                   [txs EXCEPT ![record.tx].disputed = FALSE], "Ok")

\* proc_chargeback that removes the funds and leaves the disputed flag set.
proc_chargeback_keeps_flag(accs, txs, record) ==
  IF record.tx \notin DOMAIN txs THEN Outcome(accs, txs, "TransactionNotFound")
  ELSE LET stored_tx == txs[record.tx] IN
    IF stored_tx.client # record.client THEN Outcome(accs, txs, "ClientMismatch")
    ELSE IF ~stored_tx.disputed THEN Outcome(accs, txs, "NotUnderDispute")
    ELSE IF record.client \notin DOMAIN accs
      THEN Outcome(accs, txs, "ClientNotFound")
    ELSE LET r == chargeback(accs[record.client], stored_tx.amount) IN
      IF r.err # "Ok" THEN Outcome(accs, txs, r.err)
      ELSE Outcome([accs EXCEPT ![record.client] = r.acct], txs, "Ok")

proc_chargeback(accs, txs, record) ==
  IF record.tx \notin DOMAIN txs THEN Outcome(accs, txs, "TransactionNotFound")
  ELSE LET stored_tx == txs[record.tx] IN
    IF stored_tx.client # record.client THEN Outcome(accs, txs, "ClientMismatch")
    ELSE IF ~stored_tx.disputed THEN Outcome(accs, txs, "NotUnderDispute")
    ELSE IF record.client \notin DOMAIN accs
      THEN Outcome(accs, txs, "ClientNotFound")
    ELSE LET r == chargeback(accs[record.client], stored_tx.amount) IN
      IF r.err # "Ok" THEN Outcome(accs, txs, r.err)
      ELSE Outcome([accs EXCEPT ![record.client] = r.acct],
                   [txs EXCEPT ![record.tx].disputed = FALSE], "Ok")

process(accs, txs, record) ==
  CASE record.tx_type = Deposit -> proc_deposit(accs, txs, record)
    [] record.tx_type = Withdrawal -> proc_withdrawal(accs, txs, record)
    [] record.tx_type = Dispute -> proc_dispute(accs, txs, record)
    [] record.tx_type = Resolve -> proc_resolve(accs, txs, record)
    [] record.tx_type = Chargeback -> proc_chargeback(accs, txs, record)

\* AccountError and EngineError by kind; an AccountError reaches the caller
\* inside EngineError::AccountError.
AccountError ==
  {"AccountLocked", "NegativeAmount", "InsufficientFunds",
   "InsufficientHeldFunds"}

EngineError ==
  {"MissingAmount", "DuplicateTransaction", "TransactionNotFound",
   "ClientNotFound", "ClientMismatch", "AlreadyDisputed", "NotUnderDispute",
   "CannotDisputeWithdrawal"} \cup AccountError

\* ---------------------------------------------------------------- state
VARIABLES
  accounts,      \* Engine.accounts: client id -> Account
  transactions,  \* Engine.transactions: tx id -> StoredTransaction
  rec,           \* the record handed to the last Engine::process call
  res,           \* the Result of that call: "Ok" or the error kind
  pre,           \* the two maps as they were before that call
  deposited,     \* per client, the sum of the amounts of its successful deposits
  withdrawn,     \* per client, the sum of the amounts of its successful withdrawals
  chargebacks,   \* the clients on whose account a chargeback has succeeded
  accepted,      \* per tx id, how many deposit/withdrawal records were accepted
  named,         \* the clients named by a deposit/withdrawal record that carried
                 \* an amount and a tx id not stored at that time
  charged,       \* per tx id, whether no chargeback of it has succeeded (0),
                 \* one has (1), or more than one (2)
  chargedback,   \* per client, the sum of the stored amounts of its successful
                 \* chargebacks, one term for each chargeback
  stream,        \* run: what csv_reader.deserialize() yields, item by item
  pos,           \* run: how many items of the stream the loop has taken
  pc,            \* run: "loop", "done" (output written) or "aborted" (panic)
  log,           \* run: per item taken, its index and what became of it
  output         \* run: the account rows written to stdout

vars == <<accounts, transactions, rec, res, pre,
          deposited, withdrawn, chargebacks, accepted, named, charged,
          chargedback, stream, pos, pc, log, output>>

\* What Engine::process reads and writes, with its history.
engine_vars == <<accounts, transactions, rec, res, pre,
                 deposited, withdrawn, chargebacks, accepted, named, charged,
                 chargedback>>

\* What main.rs's run adds around the engine.
run_vars == <<stream, pos, pc, log, output>>

\* An empty HashMap.
EmptyMap == [x \in {} |-> 0]

\* The value of rec before any record has been processed.
NoRecord == TransactionRecord("none", 0, 0, None)

\* Engine::new, before any record is processed.
Engine_new ==
  /\ accounts = EmptyMap
  /\ transactions = EmptyMap
  /\ rec = NoRecord
  /\ res = "Init"
  /\ pre = [accounts |-> EmptyMap, transactions |-> EmptyMap]
  /\ deposited = [c \in Clients |-> 0]
  /\ withdrawn = [c \in Clients |-> 0]
  /\ chargebacks = {}
  /\ accepted = [t \in TxIds |-> 0]
  /\ named = {}
  /\ charged = [t \in TxIds |-> 0]
  /\ chargedback = [c \in Clients |-> 0]

\* The engine on its own, handed records by a caller that is not modelled:
\* the variables of run stay as they start.
Init ==
  /\ Engine_new
  /\ stream = <<>>
  /\ pos = 0
  /\ pc = "loop"
  /\ log = <<>>
  /\ output = <<>>

IsDW(record) == record.tx_type \in {Deposit, Withdrawal}

\* engine.process(record), one iteration of the caller's loop, with the
\* history variables recording what the call returned and what it accepted.
\* out is the one outcome of the call.  No call follows one that panicked.
Step(record) ==
  \E out \in {process(accounts, transactions, record)} :
  LET ok == out.result = "Ok" IN
    /\ res # "Panic"
    /\ accounts' = out.accounts
    /\ transactions' = out.transactions
    /\ res' = out.result
    /\ pre' = [accounts |-> accounts, transactions |-> transactions]
    /\ deposited' = IF ok /\ record.tx_type = Deposit
                    THEN [deposited EXCEPT ![record.client] = @ + record.amount[1]]
                    ELSE deposited
    /\ withdrawn' = IF ok /\ record.tx_type = Withdrawal
                    THEN [withdrawn EXCEPT ![record.client] = @ + record.amount[1]]
                    ELSE withdrawn
    /\ chargebacks' = IF ok /\ record.tx_type = Chargeback
                      THEN chargebacks \cup {record.client}
                      ELSE chargebacks
    /\ accepted' = IF ok /\ IsDW(record)
                   THEN [accepted EXCEPT ![record.tx] = @ + 1]
                   ELSE accepted
    /\ named' = IF IsDW(record) /\ record.amount # None
                   /\ record.tx \notin DOMAIN transactions
                THEN named \cup {record.client}
                ELSE named
    /\ charged' = IF ok /\ record.tx_type = Chargeback
                  THEN [charged EXCEPT ![record.tx] = IF @ = 0 THEN 1 ELSE 2]
                  ELSE charged
    /\ chargedback' = IF ok /\ record.tx_type = Chargeback
                      THEN [chargedback EXCEPT ![record.client] =
                              @ + transactions[record.tx].amount]
                      ELSE chargedback

\* The stream hands the engine a deposit record.
DoDeposit ==
  \E c \in Clients, t \in TxIds, a \in OptAmounts :
    /\ rec' = TransactionRecord(Deposit, c, t, a)
    /\ Step(rec')
    /\ UNCHANGED run_vars

\* The stream hands the engine a withdrawal record.
DoWithdrawal ==
  \E c \in Clients, t \in TxIds, a \in OptAmounts :
    /\ rec' = TransactionRecord(Withdrawal, c, t, a)
    /\ Step(rec')
    /\ UNCHANGED run_vars

\* The stream hands the engine a dispute record.
DoDispute ==
  \E c \in Clients, t \in TxIds :
    /\ rec' = TransactionRecord(Dispute, c, t, None)
    /\ Step(rec')
    /\ UNCHANGED run_vars

\* The stream hands the engine a resolve record.
DoResolve ==
  \E c \in Clients, t \in TxIds :
    /\ rec' = TransactionRecord(Resolve, c, t, None)
    /\ Step(rec')
    /\ UNCHANGED run_vars

\* The stream hands the engine a chargeback record.
DoChargeback ==
  \E c \in Clients, t \in TxIds :
    /\ rec' = TransactionRecord(Chargeback, c, t, None)
    /\ Step(rec')
    /\ UNCHANGED run_vars

Next == DoDeposit \/ DoWithdrawal \/ DoDispute \/ DoResolve \/ DoChargeback

Spec == Init /\ [][Next]_vars

\* -------------------------------------------------------------- main.rs
\* A stream holds at most MaxRecords items.
MaxRecords == 3

\* One item of csv_reader.deserialize::<TransactionRecord>(): Ok(record),
\* or Err for a row that does not parse.
ParsedOk(record) == [ok |-> TRUE, record |-> record]
ParseError == [ok |-> FALSE, record |-> NoRecord]

\* The items a stream is made of: a row that does not parse; a deposit of
\* the largest Decimal; for every client a deposit of one unit under the
\* other tx id; a dispute, a resolve and a chargeback of the first deposit;
\* a withdrawal by the last client.
RunItems ==
  {ParseError,
   ParsedOk(TransactionRecord(Deposit, 1, 1, Some(DecimalMax))),
   ParsedOk(TransactionRecord(Dispute, 1, 1, None)),
   ParsedOk(TransactionRecord(Resolve, 1, 1, None)),
   ParsedOk(TransactionRecord(Chargeback, 1, 1, None)),
   ParsedOk(TransactionRecord(Withdrawal, MaxClient, 1, Some(1)))}
  \cup {ParsedOk(TransactionRecord(Deposit, c, 2, Some(1))) : c \in Clients}

\* The finite input streams.
Streams == UNION {[1..n -> RunItems] : n \in 0..MaxRecords}

\* format_decimal: "{:.4}" of a number of 0.0001 units, as the digits
\* before the point and the four digits after it.
format_decimal(d) == <<d \div 10000, d % 10000>>

\* The Decimal a formatted field reads as, in 0.0001 units.
parse_decimal(f) == f[1] * 10000 + f[2]

\* AccountOutput::from(&Account); total() is Decimal's +.
AccountOutput_from(acct) ==
  [client |-> acct.client, available |-> acct.available, held |-> acct.held,
   total |-> total(acct), locked |-> acct.locked]

\* The line write_output prints for one AccountOutput.
Row(a) ==
  [client |-> a.client,
   available |-> format_decimal(a.available),
   held |-> format_decimal(a.held),
   total |-> format_decimal(a.total),
   locked |-> a.locked]

\* The orders in which a HashMap may hand out the keys in S.
Orders(S) ==
  {o \in [1..Cardinality(S) -> S] : \A i, j \in DOMAIN o : o[i] = o[j] => i = j}

\* sort_by_key(|a| a.client): a stable sort, here by insertion from the left.
RECURSIVE sort_by_key(_)
sort_by_key(rows) ==
  IF rows = <<>> THEN <<>>
  ELSE LET n == Len(rows)
           last == rows[n]
           front == sort_by_key(SubSeq(rows, 1, n - 1))
           le == SelectSeq(front, LAMBDA r : r.client <= last.client)
           gt == SelectSeq(front, LAMBDA r : r.client > last.client)
       IN le \o <<last>> \o gt

\* write_output without the sort: the rows come out in the HashMap's order.
write_output_unsorted(accs, order) ==
  LET outs == [i \in DOMAIN order |-> AccountOutput_from(accs[order[i]])]
  IN [i \in DOMAIN outs |-> Row(outs[i])]

\* write_output's rows for the accounts taken in the given order.
write_output(accs, order) ==
  LET outs == sort_by_key([i \in DOMAIN order |-> AccountOutput_from(accs[order[i]])])
  IN [i \in DOMAIN outs |-> Row(outs[i])]

\* run, from the creation of the engine on: the reader holds a finite stream.
RunInit ==
  /\ Engine_new
  /\ stream \in Streams
  /\ pos = 0
  /\ pc = "loop"
  /\ log = <<>>
  /\ output = <<>>

\* One pass of the for loop over an item that parsed: engine.process, and a
\* line in the error file when it returned Err.  A panic ends the process.
RunRecord ==
  /\ pc = "loop"
  /\ pos < Len(stream)
  /\ stream[pos + 1].ok
  /\ rec' = stream[pos + 1].record
  /\ Step(rec')
  /\ pos' = pos + 1
  /\ log' = Append(log, <<pos + 1, res'>>)
  /\ pc' = IF res' = "Panic" THEN "aborted" ELSE "loop"
  /\ UNCHANGED <<stream, output>>

\* One pass of the for loop over an item that did not parse: a line in the
\* error file, and on to the next item.
RunParseError ==
  /\ pc = "loop"
  /\ pos < Len(stream)
  /\ ~stream[pos + 1].ok
  /\ pos' = pos + 1
  /\ log' = Append(log, <<pos + 1, "ParseError">>)
  /\ UNCHANGED <<engine_vars, stream, pc, output>>

\* The stream is at its end: write_output.  Collecting the AccountOutputs
\* panics, before any row is written, when an account's total overflows.
RunOutput ==
  /\ pc = "loop"
  /\ pos = Len(stream)
  /\ IF \E c \in DOMAIN accounts : Overflows(accounts[c].available, accounts[c].held)
     THEN pc' = "aborted" /\ output' = <<>>
     ELSE /\ pc' = "done"
          /\ \E order \in Orders(DOMAIN accounts) :
               output' = write_output(accounts, order)
  /\ UNCHANGED <<engine_vars, stream, pos, log>>

RunNext == RunRecord \/ RunParseError \/ RunOutput

SpecRun == RunInit /\ [][RunNext]_vars

\* The loop of run as a function of the items it is given: the two maps
\* the engine ends with and, item by item, what became of the item.  No item
\* is taken after one that panicked.
NotRun == "NotRun"

RunState(accs, txs, results) ==
  [accounts |-> accs, transactions |-> txs, results |-> results]

TakeItem(st, item) ==
  IF \E k \in DOMAIN st.results : st.results[k] \in {"Panic", NotRun}
    THEN RunState(st.accounts, st.transactions, Append(st.results, NotRun))
  ELSE IF ~item.ok
    THEN RunState(st.accounts, st.transactions,
                  Append(st.results, "ParseError"))
  ELSE LET out == process(st.accounts, st.transactions, item.record)
       IN RunState(out.accounts, out.transactions,
                   Append(st.results, out.result))

RECURSIVE RunFrom(_, _)
RunFrom(st, items) ==
  IF items = <<>> THEN st
  ELSE RunFrom(TakeItem(st, Head(items)), Tail(items))

Replay(items) == RunFrom(RunState(EmptyMap, EmptyMap, <<>>), items)

\* ------------------------------------------- account.rs, called directly
\* The Account operations on their own, as the unit tests of account.rs
\* call them: accounts holds the one account under test, rec the call made
\* (the operation and its amount), res its Result and pre the account as it
\* was before the call.
TestClient == 1

OpDeposit == "Account::deposit"
OpWithdraw == "Account::withdraw"
OpHold == "Account::hold"
OpRelease == "Account::release"
OpChargeback == "Account::chargeback"

\* Account::new(client), before any operation is called on it.
AccountInit ==
  /\ accounts = (TestClient :> Account_new(TestClient))
  /\ transactions = EmptyMap
  /\ rec = NoRecord
  /\ res = "Init"
  /\ pre = [accounts |-> EmptyMap, transactions |-> EmptyMap]
  /\ deposited = [c \in Clients |-> 0]
  /\ withdrawn = [c \in Clients |-> 0]
  /\ chargebacks = {}
  /\ accepted = [t \in TxIds |-> 0]
  /\ named = {}
  /\ charged = [t \in TxIds |-> 0]
  /\ chargedback = [c \in Clients |-> 0]
  /\ stream = <<>>
  /\ pos = 0
  /\ pc = "loop"
  /\ log = <<>>
  /\ output = <<>>

\* One call on the account under test that returned r; no call follows a
\* panic.
Call(r) ==
  /\ res # "Panic"
  /\ accounts' = (TestClient :> r.acct)
  /\ res' = r.err
  /\ pre' = [accounts |-> accounts, transactions |-> transactions]
  /\ UNCHANGED <<transactions, deposited, withdrawn, chargebacks, accepted,
                 named, charged, chargedback, run_vars>>

\* The call as rec keeps it: the operation and its amount.
Called(op, amount) == TransactionRecord(op, TestClient, 0, Some(amount))

CallDeposit ==
  \E amount \in Amounts :
    /\ rec' = Called(OpDeposit, amount)
    /\ Call(deposit(accounts[TestClient], amount))

CallWithdraw ==
  \E amount \in Amounts :
    /\ rec' = Called(OpWithdraw, amount)
    /\ Call(withdraw(accounts[TestClient], amount))

CallHold ==
  \E amount \in Amounts :
    /\ rec' = Called(OpHold, amount)
    /\ Call(hold(accounts[TestClient], amount))

CallRelease ==
  \E amount \in Amounts :
    /\ rec' = Called(OpRelease, amount)
    /\ Call(release(accounts[TestClient], amount))

CallChargeback ==
  \E amount \in Amounts :
    /\ rec' = Called(OpChargeback, amount)
    /\ Call(chargeback(accounts[TestClient], amount))

AccountNext ==
  CallDeposit \/ CallWithdraw \/ CallHold \/ CallRelease \/ CallChargeback

SpecAccount == AccountInit /\ [][AccountNext]_vars

\* ---------------------------------------------------------------- claims
\* What the last call had before it: the account of the record's client as
\* it was (a fresh Account when the client had none) and whether the
\* record's tx id was stored.
AccountBefore(c) ==
  IF c \in DOMAIN pre.accounts THEN pre.accounts[c] ELSE Account_new(c)

Failed == res \notin {"Ok", "Init"}

Unchanged == accounts = pre.accounts /\ transactions = pre.transactions

\* C1: after any sequence of records, every account has available >= 0 and
\* held >= 0.
C1_NonNegativeBalances ==
  \A c \in DOMAIN accounts :
    accounts[c].available >= 0 /\ accounts[c].held >= 0

\* A withdrawal was refused for lack of available funds while funds are held.
C1_Witness ==
  /\ rec.tx_type = Withdrawal
  /\ res = "InsufficientFunds"
  /\ accounts[rec.client].held > 0

\* C2: as long as no chargeback has succeeded, every account's available +
\* held is the sum of its successful deposits minus the sum of its successful
\* withdrawals; a dispute or a resolve never changes any account's total.
C2_Conservation ==
  /\ chargebacks = {} =>
       \A c \in DOMAIN accounts :
         total(accounts[c]) = deposited[c] - withdrawn[c]
  /\ rec.tx_type \in {Dispute, Resolve} =>
       /\ DOMAIN accounts = DOMAIN pre.accounts
       /\ \A c \in DOMAIN accounts :
            total(accounts[c]) = total(pre.accounts[c])

\* A resolve has returned held funds of a deposit, with no chargeback so far.
C2_Witness ==
  /\ chargebacks = {}
  /\ rec.tx_type = Resolve
  /\ res = "Ok"
  /\ deposited[rec.client] > 0
  /\ pre.accounts[rec.client].held > 0

\* C3: once an account is locked, it exists and is locked after every
\* later record, whatever the record and whether it succeeds or fails.
C3_LockMonotonic ==
  [][\A c \in DOMAIN accounts :
       accounts[c].locked => (c \in DOMAIN accounts' /\ accounts'[c].locked)]_vars

\* A resolve succeeded on an account that was locked, and it is still locked.
C3_Witness ==
  /\ rec.tx_type = Resolve
  /\ res = "Ok"
  /\ pre.accounts[rec.client].locked
  /\ accounts[rec.client].locked

C5_Original ==
  [][(IsDW(rec) /\ IsDW(rec') /\ rec.tx = rec'.tx) =>
       \/ res = "Ok" /\ res' = "DuplicateTransaction"
       \/ res = "DuplicateTransaction" /\ res' = "Ok"]_vars

\* C5 as amended: of all the deposit/withdrawal records that carry one tx
\* id, for the same or for different clients, at most one is accepted, and
\* once one has been accepted every other one that carries an amount fails
\* with DuplicateTransaction.
C5_AtMostOneAccepted ==
  /\ \A t \in TxIds : accepted[t] <= 1
  /\ (IsDW(rec) /\ rec.amount # None /\ accepted[rec.tx] >= 1 /\ res # "Ok")
       => res = "DuplicateTransaction"

\* A record of another client reused an accepted tx id and was refused.
C5_Witness ==
  /\ IsDW(rec)
  /\ res = "DuplicateTransaction"
  /\ accepted[rec.tx] = 1
  /\ transactions[rec.tx].client # rec.client

\* C6: a deposit or withdrawal with an amount whose tx id is already stored
\* fails with DuplicateTransaction and changes nothing: no balance, not the
\* stored transaction, and no account is created.
C6_DuplicateRejected ==
  (IsDW(rec) /\ rec.amount # None /\ rec.tx \in DOMAIN pre.transactions) =>
    res = "DuplicateTransaction" /\ Unchanged

\* A withdrawal reused the id of a stored deposit, for a client that has no
\* account, and none was created.
C6_Witness ==
  /\ rec.tx_type = Withdrawal
  /\ rec.amount # None
  /\ rec.tx \in DOMAIN pre.transactions
  /\ transactions[rec.tx].tx_type = Deposit
  /\ rec.client \notin DOMAIN accounts

C8_Original == IsDW(rec) => rec.client \in DOMAIN accounts

\* C8 as amended: an account exists for every client named by a processed
\* deposit or withdrawal record that carried an amount and a tx id not
\* stored at that time, whether or not the record succeeded; accounts are
\* never removed.
C8_AccountsMaterialized ==
  /\ named \subseteq DOMAIN accounts
  /\ DOMAIN pre.accounts \subseteq DOMAIN accounts

\* A failing deposit has created the account of a client that had none.
C8_Witness ==
  /\ rec.tx_type = Deposit
  /\ Failed
  /\ rec.client \in named
  /\ rec.client \notin DOMAIN pre.accounts
  /\ rec.client \in DOMAIN accounts

\* The case C9 is about: a withdrawal with a positive amount and a tx id
\* not stored, for a client that has no account.
C9_Case ==
  /\ rec.tx_type = Withdrawal
  /\ rec.amount # None
  /\ rec.amount[1] > 0
  /\ rec.tx \notin DOMAIN pre.transactions
  /\ rec.client \notin DOMAIN pre.accounts

C10_Case ==
  /\ IsDW(rec)
  /\ rec.amount # None
  /\ rec.tx \notin DOMAIN pre.transactions
  /\ rec.client \in DOMAIN pre.accounts
  /\ pre.accounts[rec.client].locked

\* C10: such a record fails with AccountLocked whatever its amount;
\* available, held and locked are unchanged and the tx id is not stored.
C10_LockedRejects ==
  C10_Case => res = "AccountLocked" /\ Unchanged

\* A withdrawal with a negative amount was refused as AccountLocked.
C10_Witness ==
  /\ C10_Case
  /\ rec.tx_type = Withdrawal
  /\ rec.amount = Some(-1)
  /\ res = "AccountLocked"

IsDRC(record) == record.tx_type \in {Dispute, Resolve, Chargeback}

\* An account's funds, apart from its locked flag.
Funds(acct) == [available |-> acct.available, held |-> acct.held]

\* What the last record would have done had its client's account not been
\* locked, all else as it was before the call.
IfUnlocked ==
  process([pre.accounts EXCEPT ![rec.client].locked = FALSE],
          pre.transactions, rec)

\* C11: locked never blocks dispute, resolve or chargeback: on a locked
\* account each of them returns the result, and leaves the available, held
\* and disputed values, it would have on the same account unlocked.
C11_LockDoesNotBlock ==
  (/\ IsDRC(rec)
   /\ rec.client \in DOMAIN pre.accounts
   /\ pre.accounts[rec.client].locked) =>
    /\ res = IfUnlocked.result
    /\ transactions = IfUnlocked.transactions
    /\ DOMAIN accounts = DOMAIN IfUnlocked.accounts
    /\ \A c \in DOMAIN accounts :
         Funds(accounts[c]) = Funds(IfUnlocked.accounts[c])

\* A dispute on a locked account succeeded and moved funds to held.
C11_Witness ==
  /\ rec.tx_type = Dispute
  /\ res = "Ok"
  /\ pre.accounts[rec.client].locked
  /\ accounts[rec.client].held > pre.accounts[rec.client].held

\* The resolve record that follows the last record, for the same client and
\* tx id, and what the engine makes of it.
AfterResolve ==
  process(accounts, transactions,
          TransactionRecord(Resolve, rec.client, rec.tx, None))

\* The dispute record that follows that resolve, and what the engine makes
\* of it.
AfterRedispute ==
  process(AfterResolve.accounts, AfterResolve.transactions,
          TransactionRecord(Dispute, rec.client, rec.tx, None))

\* The case C12 names: a dispute record by client c on a stored deposit of
\* c whose amount the account's available covers.
C12_Case ==
  /\ rec.tx_type = Dispute
  /\ rec.tx \in DOMAIN pre.transactions
  /\ pre.transactions[rec.tx].tx_type = Deposit
  /\ pre.transactions[rec.tx].client = rec.client
  /\ rec.client \in DOMAIN pre.accounts
  /\ pre.accounts[rec.client].available >= pre.transactions[rec.tx].amount

\* The dispute succeeded, the resolve and the second dispute that follow it
\* succeed, and the second dispute leaves the accounts and the stored
\* transactions as the first left them.
C12_Cycle ==
  /\ res = "Ok"
  /\ AfterResolve.result = "Ok"
  /\ AfterRedispute.result = "Ok"
  /\ AfterRedispute.accounts = accounts
  /\ AfterRedispute.transactions = transactions

\* C12 as stated: for a stored deposit of client c with available >= amount,
\* dispute, resolve, dispute all succeed and the state after the second
\* dispute is the state after the first.
C12_Original == C12_Case => C12_Cycle

\* C12 as amended: the same, for a stored deposit that is not under dispute
\* when the first dispute arrives.  Each state after a successful dispute
\* is again such a state, so the cycle can be repeated any number of times.
C12_Reentrant ==
  (C12_Case /\ ~pre.transactions[rec.tx].disputed) => C12_Cycle

\* A dispute of a positive amount succeeded and left funds available.
C12_Witness ==
  /\ C12_Case
  /\ ~pre.transactions[rec.tx].disputed
  /\ res = "Ok"
  /\ transactions[rec.tx].amount > 0
  /\ accounts[rec.client].available > 0

\* C13: a successful dispute immediately followed by a resolve of the same
\* tx by the same client: the resolve succeeds and the accounts and the
\* stored transactions are again what they were before the dispute.
C13_DisputeResolveRestores ==
  (rec.tx_type = Dispute /\ res = "Ok") =>
    /\ AfterResolve.result = "Ok"
    /\ AfterResolve.accounts = pre.accounts
    /\ AfterResolve.transactions = pre.transactions

\* A dispute succeeded on an account that already held another deposit.
C13_Witness ==
  /\ rec.tx_type = Dispute
  /\ res = "Ok"
  /\ transactions[rec.tx].amount > 0
  /\ pre.accounts[rec.client].held > 0

\* C14: a successful chargeback is one of a disputed deposit with a stored
\* amount a >= 0; it takes exactly a from held, leaves available as it was,
\* locks the account and clears the disputed flag; nothing else changes.
C14_ChargebackEffect ==
  (rec.tx_type = Chargeback /\ res = "Ok") =>
    /\ rec.tx \in DOMAIN pre.transactions
    /\ pre.transactions[rec.tx].tx_type = Deposit
    /\ pre.transactions[rec.tx].disputed
    /\ pre.transactions[rec.tx].amount >= 0
    /\ rec.client \in DOMAIN pre.accounts
    /\ accounts =
         [pre.accounts EXCEPT
            ![rec.client].held = @ - pre.transactions[rec.tx].amount,
            ![rec.client].locked = TRUE]
    /\ total(accounts[rec.client]) =
         total(pre.accounts[rec.client]) - pre.transactions[rec.tx].amount
    /\ transactions = [pre.transactions EXCEPT ![rec.tx].disputed = FALSE]

\* A chargeback of a deposit of amount 0 succeeded and locked the account.
C14_Witness ==
  /\ rec.tx_type = Chargeback
  /\ res = "Ok"
  /\ pre.transactions[rec.tx].amount = 0
  /\ ~pre.accounts[rec.client].locked
  /\ accounts[rec.client].locked

\* C15: a successful dispute is one of a stored deposit; it moves exactly
\* the stored amount from available to held, so the total is unchanged,
\* sets the disputed flag and leaves locked and everything else as it was.
C15_DisputeEffect ==
  (rec.tx_type = Dispute /\ res = "Ok") =>
    /\ rec.tx \in DOMAIN pre.transactions
    /\ pre.transactions[rec.tx].tx_type = Deposit
    /\ rec.client \in DOMAIN pre.accounts
    /\ accounts =
         [pre.accounts EXCEPT
            ![rec.client].available = @ - pre.transactions[rec.tx].amount,
            ![rec.client].held = @ + pre.transactions[rec.tx].amount]
    /\ total(accounts[rec.client]) = total(pre.accounts[rec.client])
    /\ transactions = [pre.transactions EXCEPT ![rec.tx].disputed = TRUE]

\* A dispute held one deposit's amount and left the rest available.
C15_Witness ==
  /\ rec.tx_type = Dispute
  /\ res = "Ok"
  /\ pre.transactions[rec.tx].amount > 0
  /\ pre.accounts[rec.client].available > pre.transactions[rec.tx].amount

\* The last record came from the client that owns the stored transaction
\* it names.
ByOwner ==
  /\ rec.tx \in DOMAIN pre.transactions
  /\ pre.transactions[rec.tx].client = rec.client

\* What the engine makes of a record of the given type that follows the
\* last record, for the same client and tx id.
Following(ty) ==
  process(accounts, transactions, TransactionRecord(ty, rec.client, rec.tx, None))

\* The case C16 is about: the owner disputes a stored deposit that is not
\* under dispute and whose amount exceeds the account's available.
C16_Case ==
  /\ rec.tx_type = Dispute
  /\ ByOwner
  /\ pre.transactions[rec.tx].tx_type = Deposit
  /\ ~pre.transactions[rec.tx].disputed
  /\ rec.client \in DOMAIN pre.accounts
  /\ pre.transactions[rec.tx].amount > pre.accounts[rec.client].available

\* C16: such a dispute fails with InsufficientFunds; available, held and
\* the disputed flag are unchanged, and a resolve or a chargeback of the
\* transaction that follows fails with NotUnderDispute.
C16_DisputeInsufficientFunds ==
  C16_Case =>
    /\ res = "InsufficientFunds"
    /\ Unchanged
    /\ ~transactions[rec.tx].disputed
    /\ Following(Resolve).result = "NotUnderDispute"
    /\ Following(Chargeback).result = "NotUnderDispute"

\* The deposit could not be disputed after a withdrawal had taken its funds.
C16_Witness ==
  /\ C16_Case
  /\ withdrawn[rec.client] > 0
  /\ res = "InsufficientFunds"

\* The sum of the stored amounts of the transactions in T.
RECURSIVE SumAmounts(_, _)
SumAmounts(txs, T) ==
  IF T = {} THEN 0
  ELSE LET t == CHOOSE x \in T : TRUE
       IN txs[t].amount + SumAmounts(txs, T \ {t})

\* The sum of the stored amounts of client c's transactions under dispute.
DisputedSum(c) ==
  SumAmounts(transactions,
             {t \in DOMAIN transactions :
                transactions[t].client = c /\ transactions[t].disputed})

\* C17: a dispute by the owner of a transaction that is already disputed
\* fails with AlreadyDisputed and moves no funds; no account ever holds
\* more than the amounts of its transactions that are under dispute, each
\* counted once.
C17_AtMostOneDispute ==
  /\ (rec.tx_type = Dispute /\ ByOwner /\ pre.transactions[rec.tx].disputed)
       => res = "AlreadyDisputed" /\ Unchanged
  /\ \A c \in DOMAIN accounts : accounts[c].held <= DisputedSum(c)

\* A second dispute was refused although the account's available would
\* have covered a second hold of the amount.
C17_Witness ==
  /\ rec.tx_type = Dispute
  /\ res = "AlreadyDisputed"
  /\ transactions[rec.tx].amount > 0
  /\ accounts[rec.client].available >= transactions[rec.tx].amount

\* C18: a resolve or chargeback by the owner of a stored transaction that
\* is not under dispute (never disputed, resolved, or charged back) fails
\* with NotUnderDispute and changes no balance, locked flag or disputed flag.
C18_NotUnderDispute ==
  (/\ rec.tx_type \in {Resolve, Chargeback}
   /\ ByOwner
   /\ ~pre.transactions[rec.tx].disputed) =>
    res = "NotUnderDispute" /\ Unchanged

\* A chargeback of a deposit was refused on an account that an earlier
\* chargeback had locked.
C18_Witness ==
  /\ rec.tx_type = Chargeback
  /\ res = "NotUnderDispute"
  /\ transactions[rec.tx].tx_type = Deposit
  /\ rec.client \in chargebacks
  /\ accounts[rec.client].locked

\* C19: a dispute, resolve or chargeback whose client is not the client of
\* the stored transaction fails with ClientMismatch, whether or not the
\* transaction is under dispute, and changes no account and no transaction.
C19_ClientMismatch ==
  (/\ IsDRC(rec)
   /\ rec.tx \in DOMAIN pre.transactions
   /\ pre.transactions[rec.tx].client # rec.client) =>
    res = "ClientMismatch" /\ Unchanged

\* Another client's resolve of a transaction under dispute was refused.
C19_Witness ==
  /\ rec.tx_type = Resolve
  /\ res = "ClientMismatch"
  /\ transactions[rec.tx].disputed
  /\ accounts[transactions[rec.tx].client].held > 0

\* C20: a dispute, resolve or chargeback whose tx id is not stored fails
\* with TransactionNotFound and changes nothing, so it creates no account;
\* every account there is was created by a deposit or withdrawal record, so
\* a stream of such records alone leaves the set of accounts empty.
C20_TransactionNotFound ==
  /\ (IsDRC(rec) /\ rec.tx \notin DOMAIN pre.transactions)
       => res = "TransactionNotFound" /\ Unchanged
  /\ DOMAIN accounts \subseteq named

\* A dispute named an unknown tx id and the engine still has no account.
C20_Witness ==
  /\ rec.tx_type = Dispute
  /\ res = "TransactionNotFound"
  /\ named = {}
  /\ accounts = EmptyMap

\* C21: a successful withdrawal is stored, and a dispute by the owner of a
\* stored withdrawal fails with CannotDisputeWithdrawal, never with
\* TransactionNotFound, and leaves the accounts and the disputed flag alone.
C21_WithdrawalNotDisputable ==
  /\ (rec.tx_type = Withdrawal /\ res = "Ok") =>
       /\ rec.tx \in DOMAIN transactions
       /\ transactions[rec.tx] =
            StoredTransaction_new(Withdrawal, rec.client, rec.amount[1])
  /\ (/\ rec.tx_type = Dispute
      /\ ByOwner
      /\ pre.transactions[rec.tx].tx_type = Withdrawal) =>
       /\ res = "CannotDisputeWithdrawal"
       /\ Unchanged
       /\ ~transactions[rec.tx].disputed

\* The owner disputed a stored withdrawal of a positive amount.
C21_Witness ==
  /\ rec.tx_type = Dispute
  /\ res = "CannotDisputeWithdrawal"
  /\ transactions[rec.tx].tx_type = Withdrawal
  /\ transactions[rec.tx].amount > 0

\* C22: a deposit or withdrawal record without an amount fails with
\* MissingAmount whatever else is the case (its tx id stored, its account
\* locked); it stores nothing, changes no balance and creates no account.
C22_MissingAmount ==
  (IsDW(rec) /\ rec.amount = None) => res = "MissingAmount" /\ Unchanged

\* A deposit without an amount named a stored tx id on a locked account.
C22_Witness ==
  /\ rec.tx_type = Deposit
  /\ rec.amount = None
  /\ res = "MissingAmount"
  /\ rec.tx \in DOMAIN transactions
  /\ rec.client \in DOMAIN accounts
  /\ accounts[rec.client].locked

\* Both a resolve and a chargeback of stored transaction t by its owner
\* would succeed in the current state.
CanSettle(t) ==
  LET c == transactions[t].client IN
    /\ c \in DOMAIN accounts
    /\ accounts[c].held >= transactions[t].amount
    /\ \A ty \in {Resolve, Chargeback} :
         process(accounts, transactions,
                 TransactionRecord(ty, c, t, None)).result = "Ok"

\* C23: in every reachable state, for every transaction under dispute the
\* owner's account exists and holds at least the stored amount, so a
\* resolve or a chargeback by the owner succeeds; and every such record the
\* engine was given did succeed.
C23_SettleSucceeds ==
  /\ \A t \in DOMAIN transactions : transactions[t].disputed => CanSettle(t)
  /\ (/\ rec.tx_type \in {Resolve, Chargeback}
      /\ ByOwner
      /\ pre.transactions[rec.tx].disputed) => res = "Ok"

\* A chargeback of a positive amount succeeded on an account that an
\* earlier chargeback had locked.
C23_Witness ==
  /\ rec.tx_type = Chargeback
  /\ res = "Ok"
  /\ pre.accounts[rec.client].locked
  /\ pre.transactions[rec.tx].amount > 0

\* The case C24 is about: the owner disputes a deposit that has been
\* charged back, is as the chargeback left it (not under dispute), and
\* whose amount the account's available covers.
C24_Case ==
  /\ rec.tx_type = Dispute
  /\ ByOwner
  /\ charged[rec.tx] >= 1
  /\ ~pre.transactions[rec.tx].disputed
  /\ pre.accounts[rec.client].available >= pre.transactions[rec.tx].amount

\* C24: being charged back is not terminal.  Such a dispute succeeds, and
\* the chargeback that follows it succeeds and takes the stored amount
\* from the account's total again; every chargeback the engine was given
\* for a disputed transaction that had been charged back before did so.
C24_NoTerminalChargeback ==
  /\ C24_Case =>
       /\ res = "Ok"
       /\ Following(Chargeback).result = "Ok"
       /\ total(Following(Chargeback).accounts[rec.client]) =
            total(pre.accounts[rec.client]) - pre.transactions[rec.tx].amount
  /\ (/\ rec.tx_type = Chargeback
      /\ ByOwner
      /\ pre.transactions[rec.tx].disputed
      /\ charged[rec.tx] = 2) =>
       /\ res = "Ok"
       /\ total(accounts[rec.client]) =
            total(pre.accounts[rec.client]) - pre.transactions[rec.tx].amount

\* A deposit of a positive amount was charged back a second time.
C24_Witness ==
  /\ rec.tx_type = Chargeback
  /\ res = "Ok"
  /\ charged[rec.tx] = 2
  /\ pre.transactions[rec.tx].amount > 0
  /\ deposited[rec.client] - withdrawn[rec.client] - total(accounts[rec.client])
       = 2 * pre.transactions[rec.tx].amount

\* The last call turned the disputed flag of stored transaction t on, and
\* it was a successful dispute of t.
FlagSet(t) ==
  /\ ~pre.transactions[t].disputed
  /\ transactions[t].disputed
  /\ rec.tx_type = Dispute /\ rec.tx = t /\ res = "Ok"

\* The last call turned the disputed flag of stored transaction t off, and
\* it was a successful resolve or chargeback of t.
FlagCleared(t) ==
  /\ pre.transactions[t].disputed
  /\ ~transactions[t].disputed
  /\ rec.tx_type \in {Resolve, Chargeback} /\ rec.tx = t /\ res = "Ok"

\* C25: whatever record the engine is given, every transaction stored
\* before the call is stored after it with the same kind, client and
\* amount; its disputed flag is as it was, or was set by a successful
\* dispute of it, or was cleared by a successful resolve or chargeback of it.
C25_StoredImmutable ==
  \A t \in DOMAIN pre.transactions :
    /\ t \in DOMAIN transactions
    /\ transactions[t].tx_type = pre.transactions[t].tx_type
    /\ transactions[t].client = pre.transactions[t].client
    /\ transactions[t].amount = pre.transactions[t].amount
    /\ \/ transactions[t].disputed = pre.transactions[t].disputed
       \/ FlagSet(t)
       \/ FlagCleared(t)

\* A deposit naming the id of a charged-back transaction, with another
\* amount, was refused and the stored transaction is as it was.
C25_Witness ==
  /\ rec.tx_type = Deposit
  /\ res = "DuplicateTransaction"
  /\ charged[rec.tx] >= 1
  /\ rec.amount # Some(transactions[rec.tx].amount)
  /\ transactions[rec.tx] = pre.transactions[rec.tx]

\* The stored transactions of client c of the given kind.
StoredOf(c, ty) ==
  {t \in DOMAIN transactions :
     transactions[t].client = c /\ transactions[t].tx_type = ty}

C27_RunCompletes ==
  /\ Len(log) = pos
  /\ \A i \in DOMAIN log : log[i][1] = i
  /\ pc = "done" => pos = Len(stream)
  /\ pc # "aborted"

\* C29: the output written at the end of the run has one row for each
\* account of the engine and no other, the rows are in strictly ascending
\* order of client id, and each row shows the account's available and held
\* and, as total, their sum.
C29_OutputRows ==
  pc = "done" =>
    /\ Len(output) = Cardinality(DOMAIN accounts)
    /\ {output[i].client : i \in DOMAIN output} = DOMAIN accounts
    /\ \A i, j \in DOMAIN output : i < j => output[i].client < output[j].client
    /\ \A i \in DOMAIN output :
         LET acct == accounts[output[i].client] IN
           /\ parse_decimal(output[i].available) = acct.available
           /\ parse_decimal(output[i].held) = acct.held
           /\ parse_decimal(output[i].total) = acct.available + acct.held
           /\ output[i].locked = acct.locked

\* The output has a row for each client, one with held funds and one with
\* available funds.
C29_Witness ==
  /\ pc = "done"
  /\ Len(output) = MaxClient
  /\ \E i \in DOMAIN output : parse_decimal(output[i].held) > 0
  /\ \E i \in DOMAIN output : parse_decimal(output[i].available) > 0

\* The last record is a withdrawal of more than its client's account had
\* available.
C28_Case ==
  /\ rec.tx_type = Withdrawal
  /\ rec.amount # None
  /\ AccountBefore(rec.client).available < rec.amount[1]

\* C28 as stated: every withdrawal of more than is available fails with
\* InsufficientFunds.
C28_Original == C28_Case => res = "InsufficientFunds"

\* C28 as amended: held funds cannot be withdrawn.  A withdrawal succeeds
\* only if its amount is at most the account's available, which it then
\* reduces by the amount; one of more than is available, with an unused tx
\* id on an account that is not locked, fails with InsufficientFunds,
\* whatever is held; and no withdrawal changes the held of any account.
C28_HeldNotWithdrawable ==
  /\ (rec.tx_type = Withdrawal /\ res = "Ok") =>
       /\ rec.amount[1] <= AccountBefore(rec.client).available
       /\ accounts[rec.client].available =
            AccountBefore(rec.client).available - rec.amount[1]
  /\ (/\ C28_Case
      /\ rec.tx \notin DOMAIN pre.transactions
      /\ ~AccountBefore(rec.client).locked) => res = "InsufficientFunds"
  /\ rec.tx_type = Withdrawal =>
       \A c \in DOMAIN accounts : accounts[c].held = AccountBefore(c).held

\* A withdrawal that the held funds would have covered was refused.
C28_Witness ==
  /\ C28_Case
  /\ res = "InsufficientFunds"
  /\ total(AccountBefore(rec.client)) >= rec.amount[1]

\* The first of the listed checks that the last record fails, judged on
\* the state before the call; "Ok" when it passes them all.  For a dispute:
\* TransactionNotFound, ClientMismatch, AlreadyDisputed,
\* CannotDisputeWithdrawal, InsufficientFunds; for a resolve or chargeback:
\* TransactionNotFound, ClientMismatch, NotUnderDispute.
FirstFailingCheck ==
  IF rec.tx \notin DOMAIN pre.transactions THEN "TransactionNotFound"
  ELSE LET stored_tx == pre.transactions[rec.tx] IN
    IF stored_tx.client # rec.client THEN "ClientMismatch"
    ELSE IF rec.tx_type = Dispute THEN
      IF stored_tx.disputed THEN "AlreadyDisputed"
      ELSE IF stored_tx.tx_type = Withdrawal THEN "CannotDisputeWithdrawal"
      ELSE IF AccountBefore(rec.client).available < stored_tx.amount
        THEN "InsufficientFunds"
      ELSE "Ok"
    ELSE IF ~stored_tx.disputed THEN "NotUnderDispute"
    ELSE "Ok"

\* C30: the result of a dispute, resolve or chargeback record is the first
\* check of its list that fails, and Ok when none does.  So a dispute by
\* another client of a disputed transaction gives ClientMismatch, and the
\* owner's resolve of a stored withdrawal gives NotUnderDispute.
C30_CheckOrder ==
  /\ IsDRC(rec) => res = FirstFailingCheck
  /\ (/\ rec.tx_type = Dispute
      /\ rec.tx \in DOMAIN pre.transactions
      /\ pre.transactions[rec.tx].client # rec.client
      /\ pre.transactions[rec.tx].disputed) => res = "ClientMismatch"
  /\ (/\ rec.tx_type = Resolve
      /\ ByOwner
      /\ pre.transactions[rec.tx].tx_type = Withdrawal) => res = "NotUnderDispute"

\* Another client's dispute of a transaction under dispute was refused as
\* a mismatch, although that client's account could have covered the hold.
C30_Witness ==
  /\ rec.tx_type = Dispute
  /\ res = "ClientMismatch"
  /\ pre.transactions[rec.tx].disputed
  /\ rec.client \in DOMAIN accounts
  /\ accounts[rec.client].available >= transactions[rec.tx].amount

\* C31 as stated: each of the five Account operations rejects a negative
\* amount with NegativeAmount, hold rejects an amount above available with
\* InsufficientFunds, release and chargeback reject an amount above held with
\* InsufficientHeldFunds, and a rejected operation leaves the account as it
\* was.
C31_Rejected == res \notin {"Init", "Ok", "Panic"}

C31_Bounds ==
  LET before == AccountBefore(TestClient)
      amount == rec.amount[1]
  IN /\ rec.tx_type = OpHold /\ amount > before.available
          => res = "InsufficientFunds"
     /\ rec.tx_type \in {OpRelease, OpChargeback} /\ amount > before.held
          => res = "InsufficientHeldFunds"
     /\ C31_Rejected => accounts[TestClient] = before

C31_Original ==
  res # "Init" =>
    /\ rec.amount[1] < 0 => res = "NegativeAmount"
    /\ C31_Bounds

\* C31: hold, release and chargeback reject a negative amount with
\* NegativeAmount, and so do deposit and withdraw on an account that is not
\* locked (on a locked one they answer AccountLocked first); hold rejects an
\* amount above available with InsufficientFunds, release and chargeback an
\* amount above held with InsufficientHeldFunds; a rejected operation leaves
\* available, held and locked as they were.
C31_AccountRejections ==
  res # "Init" =>
    /\ rec.amount[1] < 0
         /\ (rec.tx_type \in {OpDeposit, OpWithdraw}
               => ~AccountBefore(TestClient).locked)
         => res = "NegativeAmount"
    /\ C31_Bounds

\* A chargeback of more than is held was rejected on an account that has
\* funds available, and the account is still unlocked.
C31_Witness ==
  /\ rec.tx_type = OpChargeback
  /\ res = "InsufficientHeldFunds"
  /\ accounts[TestClient].available > 0
  /\ ~accounts[TestClient].locked

\* C32: in every reachable engine state each account's held is the sum of
\* the stored amounts of its client's transactions whose disputed flag is
\* set, zero when none is, and no transaction is under dispute for a client
\* that has no account.
C32_HeldIsDisputedSum ==
  \A c \in Clients :
    IF c \in DOMAIN accounts
    THEN accounts[c].held = DisputedSum(c)
    ELSE DisputedSum(c) = 0

\* Two deposits of one client are under dispute at the same time and the
\* account holds both amounts.
C32_Witness ==
  \E c \in DOMAIN accounts :
    /\ \A t \in TxIds :
         /\ t \in DOMAIN transactions
         /\ transactions[t].client = c
         /\ transactions[t].disputed
         /\ transactions[t].amount > 0
    /\ accounts[c].held = 2 * MaxAmount

\* C33: in every reachable engine state each account's available + held is
\* the sum of the amounts of its successful deposits, less the sum of the
\* amounts of its successful withdrawals, less the stored amount of every
\* successful chargeback on it, a deposit charged back twice counting twice;
\* a client without an account has none of the three.
C33_TotalLedger ==
  \A c \in Clients :
    IF c \in DOMAIN accounts
    THEN total(accounts[c]) = deposited[c] - withdrawn[c] - chargedback[c]
    ELSE deposited[c] = 0 /\ withdrawn[c] = 0 /\ chargedback[c] = 0

\* One deposit has been charged back twice, the second time out of the funds
\* of another deposit.
C33_Witness ==
  \E t \in DOMAIN transactions :
    /\ charged[t] = 2
    /\ transactions[t].amount > 0
    /\ chargedback[transactions[t].client] = 2 * transactions[t].amount
    /\ deposited[transactions[t].client] > transactions[t].amount

\* C34: a record that names client c and tx id t leaves every account but
\* c's as it was and creates none but c's, and leaves every stored
\* transaction but the one under t as it was and stores none but under t,
\* whether the record succeeds or fails.
C34_ClientIsolation ==
  res # "Init" =>
    /\ \A c \in Clients \ {rec.client} :
         IF c \in DOMAIN pre.accounts
         THEN c \in DOMAIN accounts /\ accounts[c] = pre.accounts[c]
         ELSE c \notin DOMAIN accounts
    /\ \A t \in TxIds \ {rec.tx} :
         IF t \in DOMAIN pre.transactions
         THEN t \in DOMAIN transactions
              /\ transactions[t] = pre.transactions[t]
         ELSE t \notin DOMAIN transactions

\* A client tried to charge back another client's disputed deposit: the
\* attempt failed and the owner's funds are still held.
C34_Witness ==
  /\ rec.tx_type = Chargeback
  /\ res = "ClientMismatch"
  /\ transactions[rec.tx].disputed
  /\ accounts[transactions[rec.tx].client].held > 0
  /\ ~accounts[transactions[rec.tx].client].locked
  /\ rec.client \in DOMAIN accounts

\* C35: an account is locked if and only if a chargeback record has
\* succeeded on it.  Accounts are created unlocked, and a record that is not
\* a successful chargeback leaves the locked flag of every account as it
\* was.
C35_LockedIffChargedBack ==
  /\ chargebacks \subseteq DOMAIN accounts
  /\ \A c \in DOMAIN accounts : accounts[c].locked <=> c \in chargebacks
  /\ (res # "Init" /\ ~(rec.tx_type = Chargeback /\ res = "Ok")) =>
       \A c \in DOMAIN accounts :
         accounts[c].locked = AccountBefore(c).locked

\* A chargeback of a deposit that is not under dispute failed on an account
\* with funds, which stays unlocked, while another account is locked.
C35_Witness ==
  /\ rec.tx_type = Chargeback
  /\ res = "NotUnderDispute"
  /\ ~accounts[rec.client].locked
  /\ accounts[rec.client].available > 0
  /\ \E c \in DOMAIN accounts : accounts[c].locked

\* C36: in every reachable engine state a stored withdrawal is not under
\* dispute, and every stored transaction has an amount that is not negative
\* and an owning client that has an account.
C36_StoredWellFormed ==
  \A t \in DOMAIN transactions :
    /\ transactions[t].tx_type = Withdrawal => ~transactions[t].disputed
    /\ transactions[t].amount >= 0
    /\ transactions[t].client \in DOMAIN accounts

\* A withdrawal is stored, and a deposit of a negative amount under the
\* other tx id has just been refused and left nothing stored.
C36_Witness ==
  /\ \E t \in DOMAIN transactions : transactions[t].tx_type = Withdrawal
  /\ rec.tx_type = Deposit
  /\ rec.amount = Some(-1)
  /\ res = "NegativeAmount"
  /\ rec.tx \notin DOMAIN transactions

\* Item i of the stream was a deposit or withdrawal of tx id t that was
\* accepted.
Consumed(i, t) ==
  /\ stream[i].ok
  /\ IsDW(stream[i].record)
  /\ stream[i].record.tx = t
  /\ log[i][2] = "Ok"

\* Item i of the stream named tx id t and left it unused: a deposit or
\* withdrawal that failed, or a dispute, resolve or chargeback that did not
\* find t.
Refused(i, t) ==
  /\ stream[i].ok
  /\ stream[i].record.tx = t
  /\ \/ IsDW(stream[i].record) /\ log[i][2] # "Ok"
     \/ IsDRC(stream[i].record) /\ log[i][2] = "TransactionNotFound"

\* What Account::deposit or Account::withdraw answers to the last record on
\* the account its client had before the call.
AccountAnswer ==
  IF rec.tx_type = Deposit
  THEN deposit(AccountBefore(rec.client), rec.amount[1]).err
  ELSE withdraw(AccountBefore(rec.client), rec.amount[1]).err

\* The last item taken was a deposit or withdrawal carrying an amount and a
\* tx id that an earlier item had named and left unused, and that no
\* earlier item had consumed.
C37_Case ==
  /\ pos >= 1
  /\ stream[pos].ok
  /\ IsDW(rec)
  /\ rec.amount # None
  /\ \E i \in 1..(pos - 1) : Refused(i, rec.tx)
  /\ \A i \in 1..(pos - 1) : ~Consumed(i, rec.tx)

\* C37: a tx id is consumed only by an accepted deposit or withdrawal.  The
\* ids stored are those of the accepted deposits and withdrawals; a deposit
\* or withdrawal whose tx id earlier records named without consuming it is
\* not rejected as DuplicateTransaction, and its outcome is the answer of
\* the account operation alone.
C37_IdConsumedByAccepted ==
  /\ \A t \in TxIds :
       t \in DOMAIN transactions <=> \E i \in 1..pos : Consumed(i, t)
  /\ C37_Case => res # "DuplicateTransaction" /\ res = AccountAnswer

\* A dispute named an unknown id, a withdrawal carrying that id failed for
\* lack of funds, and the deposit that came third under the same id was
\* accepted.
C37_Witness ==
  /\ C37_Case
  /\ pos = 3
  /\ IsDRC(stream[1].record) /\ Refused(1, rec.tx)
  /\ IsDW(stream[2].record) /\ Refused(2, rec.tx)
  /\ log[2][2] = "InsufficientFunds"
  /\ rec.tx_type = Deposit
  /\ res = "Ok"

\* The sequence s without its i-th element.
Without(s, i) ==
  [k \in 1..(Len(s) - 1) |-> IF k < i THEN s[k] ELSE s[k + 1]]

\* Item i of the items taken so far failed: it did not parse, or the engine
\* returned an error for it.
FailedItem(i) == log[i][2] \notin {"Ok", "Panic"}

\* The run over the items taken so far with item i left out.
RunWithout(i) == Replay(Without(SubSeq(stream, 1, pos), i))

\* C38: a failing record has no influence on what follows.  For the items
\* taken so far and the same items with a failing one left out, every later
\* item has the same outcome in both runs, the stored transactions agree,
\* and the accounts agree but for an account the failing deposit or
\* withdrawal created, which is empty and unlocked.
C38_NoInfluence ==
  \A i \in 1..pos :
    FailedItem(i) =>
      LET other == RunWithout(i) IN
        /\ \A j \in (i + 1)..pos : other.results[j - 1] = log[j][2]
        /\ \A j \in 1..(i - 1) : other.results[j] = log[j][2]
        /\ other.transactions = transactions
        /\ DOMAIN other.accounts \subseteq DOMAIN accounts
        /\ \A c \in DOMAIN accounts :
             IF c \in DOMAIN other.accounts
             THEN other.accounts[c] = accounts[c]
             ELSE /\ accounts[c] = Account_new(c)
                  /\ stream[i].ok
                  /\ IsDW(stream[i].record)
                  /\ stream[i].record.client = c

\* A withdrawal failed first and created an account; two records were
\* accepted after it; the run without the withdrawal has no such account.
C38_Witness ==
  /\ pos = 3
  /\ IsDW(stream[1].record)
  /\ log[1][2] = "InsufficientFunds"
  /\ log[2][2] = "Ok"
  /\ log[3][2] = "Ok"
  /\ accounts[stream[1].record.client] = Account_new(stream[1].record.client)
  /\ stream[1].record.client \notin DOMAIN RunWithout(1).accounts

\* C39: Engine::process returns Ok or an EngineError for every record in
\* every reachable state and nothing aborts the run, a deposit that takes
\* available beyond the largest Decimal included.
C39_ProcessReturns ==
  /\ res \in {"Init", "Ok"} \cup EngineError
  /\ (rec.tx_type = Deposit /\ rec.amount # None /\ rec.amount[1] >= 0
        /\ ~AccountBefore(rec.client).locked
        /\ Overflows(AccountBefore(rec.client).available, rec.amount[1]))
       => res \in {"Ok"} \cup EngineError
  /\ pc = "loop" \/ (pc = "done" /\ pos = Len(stream))

====
